---- MODULE Spec2Model ----
(***************************************************************************)
(* TreeLib::AVLMap<int, int> of src/AVLTree/main.cpp as a state machine.   *)
(*                                                                         *)
(* The node graph is a heap: a function from node identities to Node       *)
(* records (key, value, left, right, parent, height).  A shared_ptr or     *)
(* weak_ptr is a node identity or NULL.  A parameter the code takes by     *)
(* reference (std::shared_ptr<Node>&) is a slot: the place the pointer is  *)
(* stored in (root_, some node's left or right, or Delete's local          *)
(* `result`), read again at every use, as the code does.                   *)
(***************************************************************************)
EXTENDS Integers, FiniteSets, Sequences, TLC

Max(a, b) == IF a > b THEN a ELSE b

\* ------------------------------------------------------------------ bounds
MaxVal       == 1  \* values are 0..MaxVal; ValT() is 0
MaxKey       == 2  \* Spec: keys are 1..MaxKey
MaxNodes     == 3  \* Spec: nodes alive at once
MaxHeight    == 3  \* Spec: the calls that change the tree stop once a
                   \* stored height exceeds this
MaxInsertKey == 3  \* SpecInsert: keys are 1..MaxInsertKey
MaxInserts   == 7  \* SpecInsert: Insert calls of a run
MaxDistinct  == 4  \* SpecDistinct: keys are 1..MaxDistinct
MaxIndexKey  == 6  \* SpecIndex: keys are 1..MaxIndexKey
MaxCursorKey == 4  \* SpecCursor: keys are 1..MaxCursorKey
MaxCopyKey   == 3  \* SpecCopy: keys are 1..MaxCopyKey
MaxCopyNodes == 6  \* SpecCopy: nodes of the two maps together
MaxLinkKey   == 3  \* SpecLinks: keys are 1..MaxLinkKey
MaxLinkNodes == 5  \* SpecLinks: nodes of the map

Keys         == 1..MaxKey
InsertKeys   == 1..MaxInsertKey
DistinctKeys == 1..MaxDistinct
IndexKeys    == 1..MaxIndexKey
CursorKeys   == 1..MaxCursorKey
CopyKeys     == 1..MaxCopyKey
LinkKeys     == 1..MaxLinkKey
AllKeys      == Keys \cup InsertKeys \cup DistinctKeys \cup IndexKeys
Vals         == 0..MaxVal
NodeIds      == 1..Max(Max(Max(MaxNodes, MaxInserts), Max(MaxDistinct, MaxIndexKey + 1)),
                       Max(Max(MaxCursorKey, MaxCopyNodes), MaxLinkNodes))

NULL     == 0                \* nullptr, and an empty or expired weak_ptr
Default  == 0                \* ValT() for ValT = int
NotFound == -1               \* Get's outcome when it throws std::runtime_error("Not found")

VARIABLES
    heap,      \* the nodes alive: node identity -> Node record
    root_,     \* AVLMap::root_
    status,    \* "ok", or "segv" once a null pointer was dereferenced
    op,        \* the public call made last, with its argument and outcome
    phase,     \* history: "build" while the map was only built by Insert calls
               \* of distinct keys, "teardown" while such a build was followed
               \* by Delete calls only, "mixed" otherwise
    pending,   \* history: the keys inserted and not passed to Delete since
    it,        \* a cursor the client holds: Iterator::node_ and ::tree_root_
    cp,        \* a second cursor, the target of cursor copies
    copy_      \* root_ of a second map, the target of map copies

vars == <<heap, root_, status, op, phase, pending, it, cp, copy_>>

\* ------------------------------------------------------------- Node, slots
Node(k, v) ==
    [key |-> k, value |-> v, left |-> NULL, right |-> NULL,
     parent |-> NULL, height |-> 1]

\* The memory one call works on: the heap, root_, Delete's local `result`,
\* and whether the call is still running (ok) or has dereferenced nullptr.
Mem(h, r) == [h |-> h, root |-> r, result |-> NULL, ok |-> TRUE]

RootSlot     == <<"root_", NULL>>
ResultSlot   == <<"result", NULL>>
LeftSlot(n)  == <<"left", n>>
RightSlot(n) == <<"right", n>>

Rd(m, s) ==
    CASE s[1] = "root_"  -> m.root
      [] s[1] = "result" -> m.result
      [] s[1] = "left"   -> m.h[s[2]].left
      [] s[1] = "right"  -> m.h[s[2]].right

Wr(m, s, v) ==
    CASE s[1] = "root_"  -> [m EXCEPT !.root = v]
      [] s[1] = "result" -> [m EXCEPT !.result = v]
      [] s[1] = "left"   -> [m EXCEPT !.h[s[2]].left = v]
      [] s[1] = "right"  -> [m EXCEPT !.h[s[2]].right = v]

SetLeft(m, n, v)   == [m EXCEPT !.h[n].left = v]
SetRight(m, n, v)  == [m EXCEPT !.h[n].right = v]
SetParent(m, n, v) == [m EXCEPT !.h[n].parent = v]

\* x, evaluated once, handed to F: the value of a local variable.
With(x, F(_)) == CHOOSE y \in {F(v) : v \in {x}} : TRUE

\* ------------------------------------------------- heights and rotations
height(h, node) == IF node = NULL THEN 0 ELSE h[node].height

BFactor(h, node) ==
    IF node = NULL THEN 0
    ELSE height(h, h[node].right) - height(h, h[node].left)

FixHeight(h, node) ==
    IF node = NULL THEN h
    ELSE [h EXCEPT ![node].height =
              1 + Max(height(h, h[node].left), height(h, h[node].right))]

Fix(m, node) == [m EXCEPT !.h = FixHeight(m.h, node)]

\* RotateLeft(p): p is a slot; q is a local copy of p->right.
RotateLeft(m, p) ==
    With(m.h[Rd(m, p)].right, LAMBDA q :
    With(SetRight(m, Rd(m, p), m.h[q].left), LAMBDA m1 :
    With(IF m1.h[q].left # NULL
         THEN SetParent(m1, m1.h[q].left, Rd(m1, p)) ELSE m1, LAMBDA m2 :
    With(SetLeft(m2, q, Rd(m2, p)), LAMBDA m3 :
    With(Fix(m3, Rd(m3, p)), LAMBDA m4 :
    With(SetParent(m4, q, m4.h[Rd(m4, p)].parent), LAMBDA m5 :
    With(SetParent(m5, Rd(m5, p), q), LAMBDA m6 :
    With(Wr(m6, p, q), LAMBDA m7 :
    Fix(m7, q)))))))))

\* RotateRight(q): q is a slot; p is a local copy of q->left.  The code
\* fixes the height of p both times (line 422 and, q being p by then,
\* line 426); the node that moved down keeps the height it had.
RotateRight(m, q) ==
    With(m.h[Rd(m, q)].left, LAMBDA p :
    With(SetLeft(m, Rd(m, q), m.h[p].right), LAMBDA m1 :
    With(IF m1.h[p].right # NULL
         THEN SetParent(m1, m1.h[p].right, Rd(m1, q)) ELSE m1, LAMBDA m2 :
    With(SetRight(m2, p, Rd(m2, q)), LAMBDA m3 :
    With(Fix(m3, p), LAMBDA m4 :
    With(SetParent(m4, p, m4.h[Rd(m4, q)].parent), LAMBDA m5 :
    With(SetParent(m5, Rd(m5, q), p), LAMBDA m6 :
    With(Wr(m6, q, p), LAMBDA m7 :
    Fix(m7, Rd(m7, q))))))))))

BalanceNode(m, node) ==
    IF BFactor(m.h, Rd(m, node)) = 2
    THEN With(IF BFactor(m.h, m.h[Rd(m, node)].right) = -1
              THEN RotateRight(m, RightSlot(Rd(m, node))) ELSE m, LAMBDA m1 :
         RotateLeft(m1, node))
    ELSE IF BFactor(m.h, Rd(m, node)) = -2
    THEN With(IF BFactor(m.h, m.h[Rd(m, node)].left) = 1
              THEN RotateLeft(m, LeftSlot(Rd(m, node))) ELSE m, LAMBDA m1 :
         RotateRight(m1, node))
    ELSE m

\* ----------------------------------------------------------------- Insert
\* allocate_shared: the node identity handed out is the least one not alive.
NewNode(h) ==
    CHOOSE n \in NodeIds : n \notin DOMAIN h /\ \A j \in 1..(n - 1) : j \in DOMAIN h

\* The branch of lines 363-367: left when node->key > key, right otherwise
\* (so also when the keys are equal).
InsertGoesLeft(nodeKey, k) == nodeKey > k

\* Insert(parent, node, key, val): parent is a copy of the pointer, node a slot.
RECURSIVE InsertAt(_, _, _, _, _)
InsertAt(m, parent, node, k, v) ==
    IF Rd(m, node) = NULL
    THEN With(NewNode(m.h), LAMBDA n :
         With(Wr([m EXCEPT !.h = m.h @@ (n :> Node(k, v))], node, n), LAMBDA m1 :
         SetParent(m1, n, parent)))
    ELSE With(Rd(m, node), LAMBDA cur :
         With(IF m.h[cur].key = k THEN [m EXCEPT !.h[cur].value = v] ELSE m, LAMBDA m1 :
         With(IF InsertGoesLeft(m1.h[cur].key, k)
              THEN InsertAt(m1, cur, LeftSlot(cur), k, v)
              ELSE InsertAt(m1, cur, RightSlot(cur), k, v), LAMBDA m2 :
         With(Fix(m2, Rd(m2, node)), LAMBDA m3 :
         BalanceNode(m3, node)))))

\* --------------------------------------------------------- Get, Contains
GetGoesLeftMutant(nodeKey, k) == nodeKey < k

\* The branch of lines 329-333: left when node->key > key.
GetGoesLeft(nodeKey, k) == nodeKey > k

RECURSIVE GetAt(_, _, _)
GetAt(h, node, k) ==
    IF node = NULL THEN NotFound
    ELSE IF h[node].key = k THEN h[node].value
    ELSE IF GetGoesLeft(h[node].key, k) THEN GetAt(h, h[node].left, k)
    ELSE GetAt(h, h[node].right, k)

\* The branch of lines 343-346: left when node->key > key.
ContainsGoesLeft(nodeKey, k) == nodeKey > k

RECURSIVE ContainsAt(_, _, _)
ContainsAt(h, node, k) ==
    IF node = NULL THEN FALSE
    ELSE IF h[node].key = k THEN TRUE
    ELSE IF ContainsGoesLeft(h[node].key, k) THEN ContainsAt(h, h[node].left, k)
    ELSE ContainsAt(h, h[node].right, k)

Get(k)      == GetAt(heap, root_, k)
Contains(k) == ContainsAt(heap, root_, k)
TreeHeight  == height(heap, root_)

\* ----------------------------------------------------------------- Delete
\* a = std::move(b) on smart pointers: b is emptied, then a takes the value
\* b had (so a self-move leaves the value in place).
MoveField(m, a, b, f) ==
    With(m.h[b][f], LAMBDA val :
    With([m EXCEPT !.h[b][f] = NULL], LAMBDA m1 :
    [m1 EXCEPT !.h[a][f] = val]))

Segv(m) == [m EXCEPT !.ok = FALSE]

\* GetMaxLeft(node, result): node is a copy of the pointer, result a
\* reference to Delete's local `replace`.  Yields the memory, the pointer
\* returned and the value left in `replace`.
RECURSIVE GetMaxLeft(_, _)
GetMaxLeft(m, node) ==
    IF m.h[node].right # NULL
    THEN With(GetMaxLeft(m, m.h[node].right), LAMBDA r :
         IF ~r.m.ok THEN r
         ELSE With(SetRight(r.m, node, r.ret), LAMBDA m1 :
              With(Fix(m1, m1.h[node].right), LAMBDA m2 :
              [m |-> m2, ret |-> node, replace |-> r.replace])))
    ELSE With(m.h[node].left, LAMBDA to_return :
         IF to_return = NULL       \* to_return->parent on nullptr
         THEN [m |-> Segv(m), ret |-> NULL, replace |-> NULL]
         ELSE With(m.h[node].parent, LAMBDA val :
              With(SetParent(m, node, NULL), LAMBDA m1 :
              With(SetParent(m1, to_return, val), LAMBDA m2 :
              With(Fix(m2, node), LAMBDA m3 :
              [m |-> m3, ret |-> to_return, replace |-> node])))))

\* The node GetMaxLeft is started from (line 266 passes root itself).
MaxLeftStart(m, root) == Rd(m, root)

\* Lines 264-277: the node has a left child; g is what GetMaxLeft yielded.
Splice(g, root) ==
    With(g.replace, LAMBDA replace :
    With(SetLeft(g.m, Rd(g.m, root), g.ret), LAMBDA m1 :
    With(MoveField(m1, replace, Rd(m1, root), "parent"), LAMBDA m2 :
    With(MoveField(m2, replace, Rd(m2, root), "left"), LAMBDA m3 :
    With(MoveField(m3, replace, Rd(m3, root), "right"), LAMBDA m4 :
    With(IF m4.h[replace].left # NULL
         THEN SetParent(m4, m4.h[replace].left, replace) ELSE m4, LAMBDA m5 :
    With(IF m5.h[replace].right # NULL
         THEN SetParent(m5, m5.h[replace].right, replace) ELSE m5, LAMBDA m6 :
    With(Fix(m6, replace), LAMBDA m7 :
    [m7 EXCEPT !.result = replace]))))))))

\* Lines 262-284: root->key == key.  Yields the memory and the pointer
\* returned.
DeleteHere(m, root) ==
    IF m.h[Rd(m, root)].left # NULL
    THEN With(GetMaxLeft(m, MaxLeftStart(m, root)), LAMBDA g :
         IF ~g.m.ok THEN [m |-> g.m, ret |-> NULL]
         ELSE With(Splice(g, root), LAMBDA m1 :
              With(Fix(m1, m1.result), LAMBDA m2 :
              With(BalanceNode(m2, ResultSlot), LAMBDA m3 :
              [m |-> m3, ret |-> m3.result]))))
    ELSE With(Rd(m, root), LAMBDA cur :
         With([SetRight(m, cur, NULL) EXCEPT !.result = m.h[cur].right], LAMBDA m1 :
         IF m1.result = NULL       \* result->parent on nullptr
         THEN [m |-> Segv(m1), ret |-> NULL]
         ELSE With(SetParent(m1, m1.result, m1.h[Rd(m1, root)].parent), LAMBDA m2 :
              With(Fix(m2, m2.result), LAMBDA m3 :
              With(BalanceNode(m3, ResultSlot), LAMBDA m4 :
              [m |-> m4, ret |-> m4.result])))))

\* The branch of lines 285-289: the right subtree when key < root->key,
\* the left subtree otherwise.
DeleteGoesRight(k, rootKey) == k < rootKey

\* Delete(root, key): root is a slot.  Yields the memory and the pointer
\* returned.
RECURSIVE DeleteAt(_, _, _)
DeleteAt(m, root, k) ==
    IF Rd(m, root) = NULL THEN [m |-> m, ret |-> NULL]
    ELSE IF m.h[Rd(m, root)].key = k THEN DeleteHere(m, root)
    ELSE With(Rd(m, root), LAMBDA cur :
         With(IF DeleteGoesRight(k, m.h[cur].key)
              THEN RightSlot(cur) ELSE LeftSlot(cur), LAMBDA down :
         With(DeleteAt(m, down, k), LAMBDA r :
         IF ~r.m.ok THEN r
         ELSE With(IF down[1] = "right"
                   THEN SetRight(r.m, Rd(r.m, root), r.ret)
                   ELSE SetLeft(r.m, Rd(r.m, root), r.ret), LAMBDA m1 :
              With(Fix(m1, Rd(m1, root)), LAMBDA m2 :
              With(BalanceNode(m2, root), LAMBDA m3 :
              [m |-> m3, ret |-> Rd(m3, root)]))))))

\* What the shared_ptr reference counts leave alive when a call returns:
\* the nodes root_ owns through left and right.  A parent weak_ptr to a
\* node that is gone has expired and locks to nullptr.
RECURSIVE Owned(_, _, _)
Owned(h, from, seen) ==
    IF from = NULL \/ from \in seen THEN seen
    ELSE With(Owned(h, h[from].left, seen \cup {from}), LAMBDA s1 :
         Owned(h, h[from].right, s1))

Collect(h, r, other) ==
    With(Owned(h, other, Owned(h, r, {})), LAMBDA live :
    [n \in live |-> IF h[n].parent \in live THEN h[n] ELSE [h[n] EXCEPT !.parent = NULL]])

\* ------------------------------------------------ the forward cursor walk
\* AVLMap::GetLeft: the node begin() denotes.
RECURSIVE GetLeft(_, _)
GetLeft(h, root) ==
    IF root = NULL THEN NULL
    ELSE IF h[root].left = NULL THEN root
    ELSE GetLeft(h, h[root].left)

RECURSIVE NextRight(_, _)
NextRight(h, node) ==
    IF h[node].left = NULL THEN node ELSE NextRight(h, h[node].left)

\* A NextTopPlus that stops at the first ancestor, whatever its key.
NextTopPlusMutant(h, node, node_) == node

\* NextTopPlus(node), node_ being the node the cursor denotes.
RECURSIVE NextTopPlus(_, _, _)
NextTopPlus(h, node, node_) ==
    IF node = NULL THEN NULL
    ELSE IF h[node].key > h[node_].key THEN node
    ELSE NextTopPlus(h, h[node].parent, node_)

\* operator++ on a cursor at node_ (not the end sentinel): the node it
\* denotes next, NULL for the end sentinel.
Advance(h, node_) ==
    IF h[node_].right # NULL THEN NextRight(h, h[node_].right)
    ELSE NextTopPlus(h, h[node_].parent, node_)

\* The keys a cursor dereferences from `from` until it equals end(), cut
\* after `fuel` steps.
RECURSIVE Walk(_, _, _)
Walk(h, from, fuel) ==
    IF from = NULL \/ fuel = 0 THEN << >>
    ELSE With(Advance(h, from), LAMBDA next :
         <<h[from].key>> \o Walk(h, next, fuel - 1))

ForwardKeys == Walk(heap, GetLeft(heap, root_), Cardinality(DOMAIN heap) + 1)

\* ------------------------------------------------------------- cursors
\* Iterator(node, tree_root): the private constructor.
Cursor(node, tree_root) == [node_ |-> node, tree_root_ |-> tree_root]

\* A weak_ptr to a node that was destroyed has expired: it locks to nullptr.
Expire(c, h) ==
    [node_      |-> IF c.node_ \in DOMAIN h THEN c.node_ ELSE NULL,
     tree_root_ |-> IF c.tree_root_ \in DOMAIN h THEN c.tree_root_ ELSE NULL]

begin == Cursor(GetLeft(heap, root_), root_)
end   == Cursor(NULL, root_)

\* operator==: the nodes the two cursors denote are compared.
CursorEq(a, b) == a.node_ = b.node_

\* An operator++ that throws only on a cursor that has no tree either.
IncThrowsMutant(c) == c.node_ = NULL /\ c.tree_root_ = NULL

\* operator++ throws std::out_of_range on a cursor whose node_ is nullptr.
IncThrows(c) == c.node_ = NULL

\* operator++ on a cursor that does not throw.
Inc(h, c) == [c EXCEPT !.node_ = Advance(h, c.node_)]

\* AVLMap::GetRight
RECURSIVE GetRight(_, _)
GetRight(h, root) ==
    IF root = NULL THEN NULL
    ELSE IF h[root].right = NULL THEN root
    ELSE GetRight(h, h[root].right)

RECURSIVE NextLeft(_, _)
NextLeft(h, node) ==
    IF h[node].right = NULL THEN node ELSE NextLeft(h, h[node].right)

\* NextTopMinus(node), node_ being the node the cursor denotes.
RECURSIVE NextTopMinus(_, _, _)
NextTopMinus(h, node, node_) ==
    IF node = NULL THEN NULL
    ELSE IF h[node].key < h[node_].key THEN node
    ELSE NextTopMinus(h, h[node].parent, node_)

\* Lines 76-78: a cursor at the end sentinel is first moved to
\* GetRight(tree_root_).
DecFromEnd(h, c) ==
    IF c.node_ = NULL THEN [c EXCEPT !.node_ = GetRight(h, c.tree_root_)] ELSE c

\* operator--.  The text applies == nullptr and -> to the weak_ptr node_;
\* std::weak_ptr has neither, and the statements are read on the pointer
\* node_ locks to, as operator++ does through node_.lock().  The second `if`
\* (line 79) is no `else` of the first: it runs on the node the first one
\* has set.  Yields the cursor, and ok = FALSE when node_->left is read
\* on nullptr.
Dec(h, c) ==
    With(DecFromEnd(h, c), LAMBDA c1 :
    IF c1.node_ = NULL THEN [c |-> c, ok |-> FALSE]
    ELSE IF h[c1.node_].left # NULL
    THEN [c |-> [c1 EXCEPT !.node_ = NextLeft(h, h[c1.node_].left)], ok |-> TRUE]
    ELSE [c |-> [c1 EXCEPT !.node_ = NextTopMinus(h, h[c1.node_].parent, c1.node_)],
          ok |-> TRUE])

\* operator*: the pair (key, value) of the node the cursor denotes.
Deref(h, c) == <<h[c.node_].key, h[c.node_].value>>

\* The pairs a cursor dereferences from c until it equals end(), cut after
\* `fuel` steps.
RECURSIVE Traverse(_, _, _)
Traverse(h, c, fuel) ==
    IF c.node_ = NULL \/ fuel = 0 THEN << >>
    ELSE With(Inc(h, c), LAMBDA next :
         <<Deref(h, c)>> \o Traverse(h, next, fuel - 1))

\* Iterator(const Iterator& other) : node_(other.node_): tree_root_ is
\* default-constructed, an empty weak_ptr.
IteratorCopy(other) == Cursor(other.node_, NULL)

\* operator=: node_ = other.node_; the target keeps its tree_root_.
IteratorAssign(this, other) == [this EXCEPT !.node_ = other.node_]

\* ------------------------------------------------------------ the calls
\* One public call each, without the bounds of the exploration.
Call(name, k, v, had, res) ==
    [name |-> name, key |-> k, val |-> v, had |-> had, res |-> res,
     built |-> phase = "build"]

Init ==
    /\ heap = << >>
    /\ root_ = NULL
    /\ status = "ok"
    /\ phase = "build"
    /\ pending = {}
    /\ op = Call("AVLMap", 0, 0, FALSE, 0)
    /\ it = Cursor(NULL, NULL)
    /\ cp = Cursor(NULL, NULL)
    /\ copy_ = NULL

AfterInsert(k) == IF phase = "build" /\ k \notin pending THEN "build" ELSE "mixed"
AfterDelete    == IF phase \in {"build", "teardown"} THEN "teardown" ELSE "mixed"

\* void Insert(const KeyT& key, const ValT& val)
InsertCall(k, v) ==
    /\ status = "ok"
    /\ \E m \in {InsertAt(Mem(heap, root_), NULL, RootSlot, k, v)} :
           /\ heap' = m.h
           /\ root_' = m.root
    /\ status' = status
    /\ op' = Call("Insert", k, v, Contains(k), 0)
    /\ phase' = AfterInsert(k)
    /\ pending' = pending \cup {k}
    /\ UNCHANGED <<it, cp, copy_>>

\* void Delete(const KeyT& key): root_ = Delete(root_, key)
DeleteCall(k) ==
    /\ status = "ok"
    /\ \E r \in {DeleteAt(Mem(heap, root_), RootSlot, k)} :
           IF r.m.ok
           THEN /\ heap' = Collect(r.m.h, r.ret, copy_)
                /\ root_' = r.ret
                /\ status' = "ok"
           ELSE /\ status' = "segv"
                /\ UNCHANGED <<heap, root_>>
    /\ op' = Call("Delete", k, 0, Contains(k), 0)
    /\ phase' = AfterDelete
    /\ pending' = pending \ {k}
    /\ it' = Expire(it, heap')
    /\ cp' = Expire(cp, heap')
    /\ UNCHANGED copy_

\* ValT& Get(const KeyT& key)
GetCall(k) ==
    /\ status = "ok"
    /\ op' = Call("Get", k, 0, Contains(k), Get(k))
    /\ UNCHANGED <<heap, root_, status, phase, pending, it, cp, copy_>>

\* bool Contains(const KeyT& key)
ContainsCall(k) ==
    /\ status = "ok"
    /\ op' = Call("Contains", k, 0, Contains(k), Contains(k))
    /\ UNCHANGED <<heap, root_, status, phase, pending, it, cp, copy_>>

\* size_t TreeHeight()
TreeHeightCall ==
    /\ status = "ok"
    /\ op' = Call("TreeHeight", 0, 0, FALSE, TreeHeight)
    /\ UNCHANGED <<heap, root_, status, phase, pending, it, cp, copy_>>

\* operator[]: Insert(key, ValT()) when Contains(key) is false, then Get(key).
IndexCall(k) ==
    /\ status = "ok"
    /\ \E m \in {IF ~Contains(k)
                 THEN InsertAt(Mem(heap, root_), NULL, RootSlot, k, Default)
                 ELSE Mem(heap, root_)} :
           /\ heap' = m.h
           /\ root_' = m.root
           /\ op' = Call("Index", k, 0, Contains(k), GetAt(m.h, m.root, k))
    /\ status' = status
    /\ phase' = IF Contains(k) THEN phase ELSE AfterInsert(k)
    /\ pending' = IF Contains(k) THEN pending ELSE pending \cup {k}
    /\ UNCHANGED <<it, cp, copy_>>

\* ------------------------------------------------------ the specifications
\* Stored heights only grow under RotateRight; the calls that change the
\* tree are explored while every stored height is within MaxHeight.
Bounded == \A n \in DOMAIN heap : heap[n].height <= MaxHeight
Room    == Cardinality(DOMAIN heap) < MaxNodes

\* Spec: every public call, on any key.
Insert(k, v) == Bounded /\ Room /\ InsertCall(k, v)
Delete(k)    == Bounded /\ DeleteCall(k)
Index(k)     == Bounded /\ (Contains(k) \/ Room) /\ IndexCall(k)

Next ==
    \/ \E k \in Keys, v \in Vals : Insert(k, v)
    \/ \E k \in Keys : Delete(k)
    \/ \E k \in Keys : GetCall(k)
    \/ \E k \in Keys : ContainsCall(k)
    \/ \E k \in Keys : Index(k)
    \/ TreeHeightCall

Spec == Init /\ [][Next]_vars

\* SpecInsert: the maps a sequence of Insert calls builds (keys may repeat).
InsertOnly(k, v) == Cardinality(DOMAIN heap) < MaxInserts /\ InsertCall(k, v)

NextInsert == \E k \in InsertKeys, v \in Vals : InsertOnly(k, v)

SpecInsert == Init /\ [][NextInsert]_vars

\* SpecDistinct: Insert calls of distinct keys, then Delete calls, with the
\* lookups in between.
InsertFresh(k, v) == phase = "build" /\ k \notin pending /\ InsertCall(k, v)

NextDistinct ==
    \/ \E k \in DistinctKeys, v \in Vals : InsertFresh(k, v)
    \/ \E k \in DistinctKeys : DeleteCall(k)
    \/ \E k \in DistinctKeys : GetCall(k)
    \/ \E k \in DistinctKeys : ContainsCall(k)
    \/ TreeHeightCall

SpecDistinct == Init /\ [][NextDistinct]_vars

\* SpecIndex: Insert calls of distinct keys with a value other than ValT(),
\* then Delete calls of keys that were inserted, then one map[k].
Teardown(k)   == phase # "mixed" /\ op.name # "Index" /\ k \in pending /\ DeleteCall(k)
IndexAfter(k) == phase = "teardown" /\ op.name # "Index" /\ IndexCall(k)

NextIndex ==
    \/ \E k \in IndexKeys : InsertFresh(k, MaxVal)
    \/ \E k \in IndexKeys : Teardown(k)
    \/ \E k \in IndexKeys : IndexAfter(k)

SpecIndex == Init /\ [][NextIndex]_vars

\* ------------------------------------------------------- cursor calls
\* SpecLinks: any Insert and Delete calls, every value MaxVal.
LinkRoom == Cardinality(DOMAIN heap) < MaxLinkNodes

NextLinks ==
    \/ \E k \in LinkKeys : LinkRoom /\ InsertCall(k, MaxVal)
    \/ \E k \in LinkKeys : DeleteCall(k)

SpecLinks == Init /\ [][NextLinks]_vars

\* Insert calls that build a map of distinct keys before any other call,
\* each key k with the value CursorVal(k).
CursorVal(k) == k % (MaxVal + 1)

BuildForCursor(k) ==
    /\ op.name \in {"AVLMap", "Insert"}
    /\ InsertFresh(k, CursorVal(k))

\* --------------------------------------------------------- map copies
\* MakeCopy(root): yields the heap with the copy in it and the copy's root.
RECURSIVE MakeCopy(_, _)
MakeCopy(h, root) ==
    IF root = NULL THEN [h |-> h, ret |-> NULL]
    ELSE With(NewNode(h), LAMBDA new_node :
         With(MakeCopy(h @@ (new_node :> Node(h[root].key, h[root].value)),
                       h[root].left), LAMBDA l :
         With(MakeCopy([l.h EXCEPT ![new_node].left = l.ret],
                       h[root].right), LAMBDA r :
         With([r.h EXCEPT ![new_node].right = r.ret], LAMBDA h1 :
         With(IF r.ret # NULL THEN [h1 EXCEPT ![r.ret].parent = new_node] ELSE h1,
              LAMBDA h2 :
         With(IF l.ret # NULL THEN [h2 EXCEPT ![l.ret].parent = new_node] ELSE h2,
              LAMBDA h3 :
         [h   |-> [h3 EXCEPT ![new_node].height = h[root].height],
          ret |-> new_node]))))))

\* AVLMap copy(map)
CopyConstructCall ==
    /\ status = "ok"
    /\ \E c \in {MakeCopy(heap, root_)} :
           /\ heap' = c.h
           /\ copy_' = c.ret
    /\ op' = Call("AVLMap(other)", 0, 0, FALSE, 0)
    /\ UNCHANGED <<root_, status, phase, pending, it, cp>>

\* copy = map.  Line 169 passes `other`, an AVLMap, where MakeCopy takes a
\* std::weak_ptr<const Node>; there is no such conversion, and a program
\* that makes this call has no build.
CopyAssignCall ==
    /\ status = "ok"
    /\ status' = "ill-formed"
    /\ op' = Call("operator=", 0, 0, FALSE, 0)
    /\ UNCHANGED <<heap, root_, phase, pending, it, cp, copy_>>

\* copy.Insert(k, v)
InsertCopyCall(k, v) ==
    /\ status = "ok"
    /\ \E m \in {InsertAt(Mem(heap, copy_), NULL, RootSlot, k, v)} :
           /\ heap' = m.h
           /\ copy_' = m.root
    /\ op' = Call("copy.Insert", k, v, ContainsAt(heap, copy_, k), 0)
    /\ UNCHANGED <<root_, status, phase, pending, it, cp>>

\* copy.Delete(k)
DeleteCopyCall(k) ==
    /\ status = "ok"
    /\ \E r \in {DeleteAt(Mem(heap, copy_), RootSlot, k)} :
           IF r.m.ok
           THEN /\ heap' = Collect(r.m.h, root_, r.ret)
                /\ copy_' = r.ret
                /\ status' = "ok"
           ELSE /\ status' = "segv"
                /\ UNCHANGED <<heap, copy_>>
    /\ op' = Call("copy.Delete", k, 0, ContainsAt(heap, copy_, k), 0)
    /\ it' = Expire(it, heap')
    /\ cp' = Expire(cp, heap')
    /\ UNCHANGED <<root_, phase, pending>>

\* SpecCopy: Insert calls of distinct keys on a map, one copy of it, then
\* Insert and Delete calls on one of the two maps.
CopyRoom   == Cardinality(DOMAIN heap) < MaxCopyNodes
Copied     == copy_ # NULL \/ op.name = "AVLMap(other)"
OnOriginal == Copied /\ op.name \in {"AVLMap(other)", "Insert", "Delete"}
OnCopy     == Copied /\ op.name \in {"AVLMap(other)", "copy.Insert", "copy.Delete"}

NextCopy ==
    \/ \E k \in CopyKeys : ~Copied /\ BuildForCursor(k)
    \/ /\ ~Copied
       /\ 2 * Cardinality(DOMAIN heap) <= MaxCopyNodes
       /\ CopyConstructCall
    \/ ~Copied /\ CopyAssignCall
    \/ \E k \in CopyKeys, v \in Vals :
           /\ OnOriginal /\ CopyRoom /\ Bounded
           /\ ~Contains(k)
           /\ InsertCall(k, v)
    \/ \E k \in CopyKeys : OnOriginal /\ DeleteCall(k)
    \/ \E k \in CopyKeys, v \in Vals :
           /\ OnCopy /\ CopyRoom /\ Bounded
           /\ ~ContainsAt(heap, copy_, k)
           /\ InsertCopyCall(k, v)
    \/ \E k \in CopyKeys : OnCopy /\ DeleteCopyCall(k)

SpecCopy == Init /\ [][NextCopy]_vars

\* what() of the std::out_of_range operator++ throws, as a result code.
OutOfRange == -2

\* The key a cursor stands on, 0 at the end sentinel.
KeyAt(c) == IF c.node_ = NULL THEN 0 ELSE heap[c.node_].key

\* it = map.begin()
BeginCall ==
    /\ status = "ok"
    /\ it' = begin
    /\ op' = Call("begin", 0, 0, FALSE, 0)
    /\ UNCHANGED <<heap, root_, status, phase, pending, cp, copy_>>

\* it = map.end()
EndCall ==
    /\ status = "ok"
    /\ it' = end
    /\ op' = Call("end", 0, 0, FALSE, 0)
    /\ UNCHANGED <<heap, root_, status, phase, pending, cp, copy_>>

\* ++it.  The exception leaves the cursor as it was; node_ptr->right on a
\* null node_ptr would end the process.
IncCall ==
    /\ status = "ok"
    /\ IF IncThrows(it)
       THEN /\ op' = Call("++", KeyAt(it), 0, it.node_ # NULL, OutOfRange)
            /\ UNCHANGED <<it, status>>
       ELSE IF it.node_ = NULL
       THEN /\ op' = Call("++", KeyAt(it), 0, FALSE, 0)
            /\ status' = "segv"
            /\ UNCHANGED it
       ELSE /\ op' = Call("++", KeyAt(it), 0, TRUE, 0)
            /\ it' = Inc(heap, it)
            /\ UNCHANGED status
    /\ UNCHANGED <<heap, root_, phase, pending, cp, copy_>>

\* --it
DecCall ==
    /\ status = "ok"
    /\ \E r \in {Dec(heap, it)} :
           /\ it' = r.c
           /\ status' = IF r.ok THEN "ok" ELSE "segv"
    /\ op' = Call("--", KeyAt(it), 0, it.node_ # NULL, 0)
    /\ UNCHANGED <<heap, root_, phase, pending, cp, copy_>>

\* Iterator cp(it)
IteratorCopyCall ==
    /\ status = "ok"
    /\ cp' = IteratorCopy(it)
    /\ op' = Call("Iterator(it)", KeyAt(it), 0, it.node_ # NULL, 0)
    /\ UNCHANGED <<heap, root_, status, phase, pending, it, copy_>>

\* cp = it
IteratorAssignCall ==
    /\ status = "ok"
    /\ cp' = IteratorAssign(cp, it)
    /\ op' = Call("cp = it", KeyAt(it), 0, it.node_ # NULL, 0)
    /\ UNCHANGED <<heap, root_, status, phase, pending, it, copy_>>

\* Iterator cp(it++): the copy is taken, then ++*this runs; when it throws
\* the copy is destroyed and cp is never constructed.
PostIncCall ==
    /\ status = "ok"
    /\ IF IncThrows(it)
       THEN /\ op' = Call("it++", KeyAt(it), 0, it.node_ # NULL, OutOfRange)
            /\ UNCHANGED <<it, cp, status>>
       ELSE IF it.node_ = NULL
       THEN /\ op' = Call("it++", KeyAt(it), 0, FALSE, 0)
            /\ status' = "segv"
            /\ UNCHANGED <<it, cp>>
       ELSE /\ op' = Call("it++", KeyAt(it), 0, TRUE, 0)
            /\ cp' = IteratorCopy(it)
            /\ it' = Inc(heap, it)
            /\ UNCHANGED status
    /\ UNCHANGED <<heap, root_, phase, pending, copy_>>

\* Iterator cp(it--)
PostDecCall ==
    /\ status = "ok"
    /\ \E r \in {Dec(heap, it)} :
           /\ it' = r.c
           /\ cp' = IF r.ok THEN IteratorCopy(it) ELSE cp
           /\ status' = IF r.ok THEN "ok" ELSE "segv"
    /\ op' = Call("it--", KeyAt(it), 0, it.node_ # NULL, 0)
    /\ UNCHANGED <<heap, root_, phase, pending, copy_>>

\* ++cp
IncCopyCall ==
    /\ status = "ok"
    /\ IF IncThrows(cp)
       THEN /\ op' = Call("++cp", KeyAt(cp), 0, cp.node_ # NULL, OutOfRange)
            /\ UNCHANGED <<cp, status>>
       ELSE IF cp.node_ = NULL
       THEN /\ op' = Call("++cp", KeyAt(cp), 0, FALSE, 0)
            /\ status' = "segv"
            /\ UNCHANGED cp
       ELSE /\ op' = Call("++cp", KeyAt(cp), 0, TRUE, 0)
            /\ cp' = Inc(heap, cp)
            /\ UNCHANGED status
    /\ UNCHANGED <<heap, root_, phase, pending, it, copy_>>

\* --cp
DecCopyCall ==
    /\ status = "ok"
    /\ \E r \in {Dec(heap, cp)} :
           /\ cp' = r.c
           /\ status' = IF r.ok THEN "ok" ELSE "segv"
    /\ op' = Call("--cp", KeyAt(cp), 0, cp.node_ # NULL, 0)
    /\ UNCHANGED <<heap, root_, phase, pending, it, copy_>>

\* rbegin(): std::reverse_iterator(end()) stores a copy of end().
RBeginCall ==
    /\ status = "ok"
    /\ cp' = IteratorCopy(end)
    /\ op' = Call("rbegin", 0, 0, FALSE, 0)
    /\ UNCHANGED <<heap, root_, status, phase, pending, it, copy_>>

\* SpecCursor: Insert calls of distinct keys, each key k with the value
\* CursorVal(k), then cursor calls on the map so built.
NextCursor ==
    \/ \E k \in CursorKeys : BuildForCursor(k)
    \/ BeginCall
    \/ EndCall
    \/ IncCall
    \/ DecCall
    \/ IteratorCopyCall
    \/ IteratorAssignCall
    \/ PostIncCall
    \/ PostDecCall
    \/ IncCopyCall
    \/ DecCopyCall
    \/ RBeginCall

SpecCursor == Init /\ [][NextCursor]_vars

\* ------------------------------------------------------------- the claims
NodesWithKey(k) == {n \in DOMAIN heap : heap[n].key = k}
Subtree(n)      == Owned(heap, n, {})

RECURSIVE TrueHeight(_, _)
TrueHeight(h, n) ==
    IF n = NULL THEN 0
    ELSE 1 + Max(TrueHeight(h, h[n].left), TrueHeight(h, h[n].right))

StrictlyAscending(s) == \A i \in 1..(Len(s) - 1) : s[i] < s[i + 1]

BSTOrder ==
    \A n \in DOMAIN heap :
        /\ \A l \in Subtree(heap[n].left)  : heap[l].key < heap[n].key
        /\ \A r \in Subtree(heap[n].right) : heap[n].key < heap[r].key

\* C1 (SpecInsert): after any sequence of Insert calls the tree holds at
\* most one node per key, and after Insert(k, v) exactly one node has key k
\* and it holds v.
C1_OneNodePerKey ==
    /\ \A k \in AllKeys : Cardinality(NodesWithKey(k)) <= 1
    /\ op.name = "Insert" =>
           \E n \in DOMAIN heap : NodesWithKey(op.key) = {n} /\ heap[n].value = op.val

\* C2 (SpecInsert): immediately after Insert(k, v), Contains(k) is true and
\* Get(k) returns v, whether or not k was present before.
C2_InsertThenLookup ==
    op.name = "Insert" => (Contains(op.key) /\ Get(op.key) = op.val)

\* C3 (SpecInsert): the forward cursor walk from begin() to end() yields
\* strictly ascending keys, and every node's key lies strictly between the
\* keys of its left subtree and those of its right subtree.
C3_InOrderAscending ==
    /\ StrictlyAscending(ForwardKeys)
    /\ BSTOrder

\* C4 (SpecDistinct): after any sequence of Insert and Delete calls every node has
\* height(right) - height(left) in {-1, 0, 1}, the heights being those of
\* the subtrees as they are.
C4_Balanced ==
    status = "ok" =>
        \A n \in DOMAIN heap :
            TrueHeight(heap, heap[n].right) - TrueHeight(heap, heap[n].left) \in {-1, 0, 1}

\* C5 (SpecDistinct): on a map built by Insert calls of distinct keys,
\* Delete(k) of a key k that is present completes without error and
\* afterwards Contains(k) is false.
C5_DeleteRemovesKey ==
    (op.name = "Delete" /\ op.built /\ op.had) =>
        (status = "ok" /\ ~Contains(op.key))

\* C6 (SpecDistinct): on a map built by Insert calls of distinct keys,
\* Delete(k) leaves every key other than k as it was: present with the same
\* value if it was present, absent if it was absent.
C6_DeleteKeepsOthers ==
    [][(op'.name = "Delete" /\ op'.built /\ status' = "ok") =>
           \A j \in AllKeys \ {op'.key} :
               GetAt(heap', root_', j) = GetAt(heap, root_, j)]_vars

\* C7 (SpecDistinct): Delete(k) on a map that does not contain k raises no error and
\* leaves the nodes, their links, their stored heights and their values
\* as they were.
C7_DeleteAbsentNoOp ==
    [][(op'.name = "Delete" /\ ~op'.had) =>
           (status' = "ok" /\ heap' = heap /\ root_' = root_)]_vars

\* C8 (SpecDistinct): once distinct keys were inserted and Delete was then
\* called on each of them, the tree is empty: TreeHeight() is 0 and
\* Contains is false for every key.
C8_RoundTrip ==
    (phase = "teardown" /\ pending = {}) =>
        (status = "ok" /\ TreeHeight = 0 /\ \A k \in AllKeys : ~Contains(k))

\* C9 (Spec): in every state the map reaches and for every key k, Get(k)
\* raises NotFound exactly when Contains(k) is false and otherwise yields
\* the value of a node whose key is k; Contains(k) yields a boolean (it
\* does not raise); and a call of Get or Contains leaves the nodes, root_
\* and the status as they were.
C9_GetNotFoundIffAbsent ==
    /\ [](\A k \in AllKeys \cup {0, MaxIndexKey + 1} :
              /\ Contains(k) \in BOOLEAN
              /\ (Get(k) = NotFound) <=> ~Contains(k)
              /\ Contains(k) => \E n \in NodesWithKey(k) : heap[n].value = Get(k))
    /\ [][(op'.name \in {"Get", "Contains"}) =>
              /\ heap' = heap /\ root_' = root_ /\ status' = status
              /\ op'.name = "Get" => (op'.res = NotFound <=> ~op'.had)
              /\ op'.name = "Contains" => op'.res = op'.had]_vars

\* Get has raised NotFound for a key on a map of two or more nodes in which
\* another key is found.
C9_Witness ==
    /\ op.name = "Get"
    /\ op.res = NotFound
    /\ ~Contains(op.key)
    /\ Cardinality(DOMAIN heap) >= 2
    /\ \E k \in Keys : Contains(k) /\ Get(k) # NotFound

\* C10 (SpecIndex): map[k] never raises; when k is absent it adds exactly one
\* node, with key k and the default value, and returns that value; when k
\* is present it returns the stored value and leaves the tree as it was.
C10_IndexAutoCreates ==
    [][(op'.name = "Index") =>
           /\ op'.res # NotFound
           /\ op'.had =>
                  (heap' = heap /\ root_' = root_ /\ op'.res = Get(op'.key))
           /\ ~op'.had =>
                  /\ op'.res = Default
                  /\ \E n \in DOMAIN heap' \ DOMAIN heap :
                         /\ DOMAIN heap' = DOMAIN heap \cup {n}
                         /\ heap'[n].key = op'.key
                         /\ heap'[n].value = Default]_vars

\* The elements of a set of keys, smallest first.
RECURSIVE AscendingSeq(_)
AscendingSeq(S) ==
    IF S = {} THEN << >>
    ELSE With(CHOOSE m \in S : \A x \in S : m <= x, LAMBDA m :
         <<m>> \o AscendingSeq(S \ {m}))

RECURSIVE Pairs(_)
Pairs(ks) ==
    IF ks = << >> THEN << >>
    ELSE <<<<Head(ks), CursorVal(Head(ks))>>>> \o Pairs(Tail(ks))

\* C11 (SpecCursor): for a map built by Insert calls of distinct keys, the
\* cursor taken from begin() and advanced until it equals end() dereferences
\* every inserted key once, in ascending order, each with the value that was
\* inserted with it, the advance after the largest key giving end(); on the
\* empty map begin() == end().
C11_ForwardTraversal ==
    status = "ok" =>
        /\ Traverse(heap, begin, Cardinality(pending) + 1)
               = Pairs(AscendingSeq(pending))
        /\ (pending = {} => CursorEq(begin, end))

\* A cursor was advanced from the largest of MaxCursorKey keys to end().
C11_Witness ==
    /\ status = "ok"
    /\ op.name = "++"
    /\ op.had
    /\ op.key = MaxCursorKey
    /\ CursorEq(it, end)
    /\ Cardinality(pending) = MaxCursorKey
    /\ Len(Traverse(heap, begin, MaxCursorKey + 1)) = MaxCursorKey

\* std::reverse_iterator over the cursor `current` it holds a copy of:
\* operator* copies current, retreats the copy and dereferences it,
\* operator++ retreats current, and the walk ends when current equals the
\* cursor rend() holds.  Yields the pairs dereferenced, and ok = FALSE when
\* a retreat or a dereference reads through nullptr.
RECURSIVE Reverse(_, _, _, _)
Reverse(h, current, last, fuel) ==
    IF CursorEq(current, last) \/ fuel = 0 THEN [pairs |-> << >>, ok |-> TRUE]
    ELSE With(Dec(h, IteratorCopy(current)), LAMBDA tmp :
         IF ~tmp.ok \/ tmp.c.node_ = NULL THEN [pairs |-> << >>, ok |-> FALSE]
         ELSE With(Dec(h, current), LAMBDA next :
              IF ~next.ok THEN [pairs |-> <<Deref(h, tmp.c)>>, ok |-> FALSE]
              ELSE With(Reverse(h, next.c, last, fuel - 1), LAMBDA rest :
                   [pairs |-> <<Deref(h, tmp.c)>> \o rest.pairs,
                    ok    |-> rest.ok])))

\* rbegin() .. rend() on the map as it is.
ReverseTraversal ==
    Reverse(heap, IteratorCopy(end), IteratorCopy(begin),
            Cardinality(DOMAIN heap) + 1)

Reversed(s) == [i \in 1..Len(s) |-> s[Len(s) + 1 - i]]

\* C12 (SpecCursor): for a map built by Insert calls of distinct keys, the
\* walk from rbegin() to rend() reads through no null pointer and
\* dereferences every inserted key once, in descending order, the largest
\* first, each with its value.
C12_ReverseTraversal ==
    status = "ok" =>
        /\ ReverseTraversal.ok
        /\ ReverseTraversal.pairs = Reversed(Pairs(AscendingSeq(pending)))

\* C13 (SpecCursor): ++ on a cursor that equals end() throws
\* std::out_of_range; after it the cursor still equals end() and the tree
\* is as it was.
C13_IncAtEndThrows ==
    [][/\ (op'.name \in {"++", "it++"} /\ CursorEq(it, end)) =>
           /\ op'.res = OutOfRange
           /\ status' = "ok"
           /\ it' = it
           /\ CursorEq(it', end)
           /\ heap' = heap
           /\ root_' = root_
       /\ (op'.name = "++cp" /\ CursorEq(cp, end)) =>
           /\ op'.res = OutOfRange
           /\ status' = "ok"
           /\ cp' = cp
           /\ CursorEq(cp', end)
           /\ heap' = heap
           /\ root_' = root_]_vars

\* ++ has thrown on the end() of a map of several keys.
C13_Witness ==
    /\ status = "ok"
    /\ op.name = "++"
    /\ op.res = OutOfRange
    /\ CursorEq(it, end)
    /\ it.tree_root_ = root_
    /\ Cardinality(pending) >= 2

\* Keys, values, stored heights and shape of the tree under n.
RECURSIVE Shape(_, _)
Shape(h, n) ==
    IF n = NULL THEN << >>
    ELSE <<h[n].key, h[n].value, h[n].height,
           Shape(h, h[n].left), Shape(h, h[n].right)>>

\* Every parent back-link of the tree under r stays inside that tree and
\* denotes the node whose child the node is; the one of r is empty.
ParentsInside(h, r) ==
    \A n \in Owned(h, r, {}) :
        IF n = r THEN h[n].parent = NULL
        ELSE /\ h[n].parent \in Owned(h, r, {})
             /\ n \in {h[h[n].parent].left, h[h[n].parent].right}

\* The step leaves the tree under r as it is, node for node.
Untouched(r) ==
    /\ Owned(heap, r, {}) \subseteq DOMAIN heap'
    /\ \A n \in Owned(heap, r, {}) : heap'[n] = heap[n]

\* C14 (SpecCopy): copy construction and copy assignment give the copy the
\* keys, values, shape and stored heights of the source, in nodes of its
\* own whose parent back-links stay inside the copy, and leave the source
\* as it is; an Insert or Delete on the copy leaves the original as it is,
\* node for node, and one on the original leaves the copy as it is.
C14_CopyIsolated ==
    [][/\ op'.name \in {"AVLMap(other)", "operator="} =>
           /\ status' = "ok"
           /\ Shape(heap', copy_') = Shape(heap, root_)
           /\ Owned(heap', copy_', {}) \cap Owned(heap', root_', {}) = {}
           /\ ParentsInside(heap', copy_')
           /\ root_' = root_
           /\ Untouched(root_)
       /\ op'.name \in {"copy.Insert", "copy.Delete"} =>
           /\ root_' = root_
           /\ Untouched(root_)
       /\ op'.name \in {"Insert", "Delete"} =>
           /\ copy_' = copy_
           /\ Untouched(copy_)]_vars

\* C15 (SpecDistinct): after every Insert and every Delete the height
\* stored in each node is 1 + the larger of the heights its two subtrees
\* have (0 for an absent child), so TreeHeight() is the height of the tree,
\* and 0 on the empty tree.
C15_StoredHeights ==
    status = "ok" =>
        /\ \A n \in DOMAIN heap : heap[n].height = TrueHeight(heap, n)
        /\ TreeHeight = TrueHeight(heap, root_)

\* C16 (SpecLinks): after every Insert and every Delete the parent
\* back-link of the root is empty and the one of every other node of the
\* tree denotes the one node that has it as left or right child.
C16_BackLinks ==
    status = "ok" =>
        /\ ParentsInside(heap, root_)
        /\ \A n \in Owned(heap, root_, {}) :
               Cardinality({p \in DOMAIN heap : n \in {heap[p].left, heap[p].right}})
                   = IF n = root_ THEN 0 ELSE 1

\* The node with key k that Delete(root, k) reaches by the branches of
\* lines 285-289, NULL when it reaches none.
RECURSIVE Reached(_, _, _)
Reached(h, root, k) ==
    IF root = NULL THEN NULL
    ELSE IF h[root].key = k THEN root
    ELSE IF DeleteGoesRight(k, h[root].key) THEN Reached(h, h[root].right, k)
    ELSE Reached(h, h[root].left, k)

\* The node the Delete call of this step reaches.
Target == Reached(heap, root_, op'.key)

\* C17 (SpecLinks): when Delete reaches the node with the matching key and
\* that node has no left child, the call completes without error, the node
\* is gone and every other node stays; a right child gets the deleted
\* node's former parent as its parent, and with no right child the slot is
\* left empty (deleting the only node leaves the empty tree).
C17_DeleteNoLeftChild ==
    [][(op'.name = "Delete" /\ Target # NULL /\ heap[Target].left = NULL) =>
           /\ status' = "ok"
           /\ DOMAIN heap' = DOMAIN heap \ {Target}
           /\ heap[Target].right # NULL =>
                  heap'[heap[Target].right].parent = heap[Target].parent
           /\ (heap[Target].right = NULL /\ Target = root_) => root_' = NULL]_vars

\* The maximum-keyed node of the left subtree of n: the last node on the
\* right links from n's left child.
Predecessor(h, n) == GetRight(h, h[n].left)

\* C18 (SpecLinks): when Delete reaches the node with the matching key and
\* that node has a left child, the call completes without error, the node
\* is gone and every other node stays in the tree, so the result holds
\* every former key but the deleted one; the node that takes its place is
\* the last node on the right links from its left child, which is handed
\* the deleted node's parent, and at the root becomes the root unless the
\* rebalancing that follows rotates there.
C18_DeleteWithLeftChild ==
    [][(op'.name = "Delete" /\ Target # NULL /\ heap[Target].left # NULL) =>
           /\ status' = "ok"
           /\ DOMAIN heap' = DOMAIN heap \ {Target}
           /\ Owned(heap', root_', {}) = Owned(heap, root_, {}) \ {Target}
           /\ Target = root_ =>
                  \/ root_' = Predecessor(heap, Target)
                  \/ heap'[Predecessor(heap, Target)].parent = root_']_vars

MaxOf(S) == CHOOSE m \in S : \A x \in S : x <= m
MinOf(S) == CHOOSE m \in S : \A x \in S : m <= x

\* C19 (SpecCursor): on a map built by Insert calls of distinct keys, -- on
\* a cursor that equals end(), the map not being empty, moves it to the
\* node with the largest key; -- on a cursor at a node other than the one
\* with the smallest key moves it to the node with the largest key below
\* the current one.
C19_Retreat ==
    [][op'.name = "--" =>
           /\ (CursorEq(it, end) /\ it.tree_root_ = root_ /\ pending # {}) =>
                  /\ status' = "ok"
                  /\ it'.node_ # NULL
                  /\ heap[it'.node_].key = MaxOf(pending)
           /\ (it.node_ # NULL /\ heap[it.node_].key # MinOf(pending)) =>
                  /\ status' = "ok"
                  /\ it'.node_ # NULL
                  /\ heap[it'.node_].key
                         = MaxOf({k \in pending : k < heap[it.node_].key})]_vars

\* C20 (SpecCursor): a cursor made from another by the copy constructor or
\* by operator= (it++ and it-- return such a copy of the cursor as it was)
\* has the node and the tree root of its source, equals it, and ++ and --
\* on the copy give what they give on the source, -- from end() included.
C20_CursorCopy ==
    [][(/\ op'.name \in {"Iterator(it)", "cp = it", "it++", "it--"}
        /\ status' = "ok"
        /\ op'.res # OutOfRange) =>
           /\ cp'.node_ = it.node_
           /\ cp'.tree_root_ = it.tree_root_
           /\ CursorEq(cp', it)
           /\ IncThrows(cp') = IncThrows(it)
           /\ ~IncThrows(it) => Inc(heap, cp') = Inc(heap, it)
           /\ Dec(heap, cp').ok = Dec(heap, it).ok
           /\ Dec(heap, cp').c.node_ = Dec(heap, it).c.node_]_vars

================================================================================
